---- MODULE Spec2Model ----
(***************************************************************************)
(* A model of the AIStudio Python daemon (AIStudio/Python):                *)
(*   aistudio_daemon.py  - main loop, lazy backend handles, dispatch       *)
(*   mlx_image_gen.py    - MLXImageGenerator                               *)
(*   mlx_whisper_stt.py  - MLXWhisperSTT                                   *)
(*   mlx_voice_clone.py  - MLXVoiceClone                                   *)
(*   mlx_music_gen.py    - MLXMusicGen, _array_to_wav                      *)
(* JSON objects are functions from keys (strings) to values; the external  *)
(* inference libraries are an environment fixed for the life of a run.     *)
(***************************************************************************)
EXTENDS Integers, Sequences, FiniteSets, TLC

VARIABLES
    env,        \* what the host offers: importable modules, loadable models
    pc,         \* main loop position: "read", "handle", "write", "done", "crashed"
    nread,      \* input lines consumed so far
    nonblank,   \* non-blank input lines consumed so far
    line,       \* the line being processed
    response,   \* the response computed for the line
    exc,        \* the exception handle_request caught for the line, if any
    tried,      \* backends whose import/construction was attempted for the line
    stdout,     \* per written response, the index of the non-blank line it answers
    daemon,     \* module globals and adapter objects
    ref,        \* reference daemon: the same run without one failed request
    skipped,    \* whether the reference run has left a failed request out
    refResp,    \* the reference run's response to the line
    wavIn,      \* _array_to_wav: the sample array, in units of 1/Q
    wavRate,    \* _array_to_wav: the sample rate
    wavMusic,   \* outcome of MLXMusicGen._array_to_wav
    wavClone,   \* outcome of MLXVoiceClone._array_to_wav
    cpc,        \* MLXVoiceClone.clone: position in the call
    ncalls,     \* clone: calls made so far
    tools,      \* clone: what ffmpeg, afconvert and the generator do in this call
    files,      \* temporary files that exist on disk
    created,    \* temporary files created during the current call
    nfiles,     \* temporary files created so far (names are 1, 2, ...)
    rtmp,       \* _resample_to_24k: tmp_path
    resampled_ref,  \* clone: resampled_ref
    tmp_path,   \* clone: tmp_path
    pending     \* clone: whether an exception is passing through the finally block

vars == <<env, pc, nread, nonblank, line, response, exc, tried, stdout, daemon,
          ref, skipped, refResp, wavIn, wavRate, wavMusic, wavClone,
          cpc, ncalls, tools, files, created, nfiles, rtmp, resampled_ref,
          tmp_path, pending>>

daemonVars == <<env, pc, nread, nonblank, line, response, exc, tried, stdout,
                daemon, ref, skipped, refResp>>
wavVars == <<wavIn, wavRate, wavMusic, wavClone>>
cloneVars == <<cpc, ncalls, tools, files, created, nfiles, rtmp, resampled_ref,
               tmp_path, pending>>

(***************************************************************************)
(* Bounds                                                                  *)
(***************************************************************************)
MaxLines == 3
MaxSamples == 2
MaxCalls == 2
Q == 2

(***************************************************************************)
(* JSON objects                                                            *)
(***************************************************************************)
EmptyObj == [k \in {} |-> ""]

\* dict.get(key, default)
Get(obj, key, default) == IF key \in DOMAIN obj THEN obj[key] ELSE default

\* {**base, **extra}: keys of extra override those of base
Merge(base, extra) ==
    [k \in (DOMAIN base) \cup (DOMAIN extra) |->
        IF k \in DOMAIN extra THEN extra[k] ELSE base[k]]

(***************************************************************************)
(* Commands, backends and the environment                                  *)
(***************************************************************************)
Backends == {"image", "tts", "voice_clone", "whisper", "music"}

Commands == {"health", "generate_image", "img2img", "list_image_models", "tts",
             "list_tts_engines", "list_voices", "voice_clone", "transcribe",
             "generate_music", "cancel"}

\* the backend each command's branch of handle_request asks for
BackendOf(command) ==
    CASE command \in {"generate_image", "img2img", "list_image_models"} -> "image"
      [] command \in {"tts", "list_tts_engines", "list_voices"} -> "tts"
      [] command = "voice_clone" -> "voice_clone"
      [] command = "transcribe" -> "whisper"
      [] command = "generate_music" -> "music"
      [] OTHER -> "none"

Sizes == {"small", "large"}

BaseEnv ==
    [image |-> "diffusionkit", tts |-> "ok", voice_clone |-> "ok",
     whisper |-> "ok", music |-> "native", musicBad |-> {}]

\* "import": the daemon's `from mlx_x import X` raises; "ctor": X() raises;
\* "none"/"nolib": the third-party library is not installed; "loaderr": the
\* library is installed and loading the model raises; musicBad: the model
\* sizes whose weights fail to load.
AllEnvs ==
    [image : {"import", "diffusionkit", "mflux", "none", "loaderr"},
     tts : {"ok", "import", "ctor"},
     voice_clone : {"ok", "import", "nolib"},
     whisper : {"ok", "import", "nolib"},
     music : {"native", "transformers", "none", "import"},
     musicBad : SUBSET Sizes]

\* the backends on which host e differs from the all-working host
Deviations(e) ==
    {b \in Backends : e[b] # BaseEnv[b]}
    \cup (IF e.musicBad # {} THEN {"music"} ELSE {})

\* hosts that differ from the all-working host in at most one backend
\* (the backends share no state, so their failures do not interact)
Envs ==
    {e \in AllEnvs :
        /\ Cardinality(Deviations(e)) <= 1
        /\ e.music \in {"none", "import"} => e.musicBad = {}}

(***************************************************************************)
(* Input lines                                                             *)
(***************************************************************************)
IdPart == {EmptyObj} \cup {"request_id" :> i : i \in {"r1", "r2"}}

CommandPart == {EmptyObj} \cup {"command" :> c : c \in Commands \cup {"bogus"}}

\* the command's main input; "bad" is an input the library call raises on
InputKey(command) ==
    CASE command \in {"generate_image", "img2img", "generate_music"} -> "prompt"
      [] command \in {"tts", "voice_clone"} -> "text"
      [] command = "transcribe" -> "audio_file"
      [] OTHER -> "prompt"

InputPart(c) ==
    IF BackendOf(c) = "none" \/ c \in {"list_image_models", "list_tts_engines", "list_voices"}
    THEN {EmptyObj}
    ELSE {EmptyObj, InputKey(c) :> "bad"}

ModelPart(c) ==
    CASE c = "generate_music" -> {EmptyObj, "model_size" :> "large"}
      [] c = "transcribe" -> {EmptyObj, "model" :> "tiny"}
      [] OTHER -> {EmptyObj}

Requests ==
    UNION { UNION { { (cp @@ ip) @@ (xp @@ mp) :
                        xp \in InputPart(Get(cp, "command", "")),
                        mp \in ModelPart(Get(cp, "command", "")) }
                    : ip \in IdPart }
            : cp \in CommandPart }

\* a line after strip(): blank, not JSON, JSON that is no object, or an object
Lines ==
    {[kind |-> k, req |-> EmptyObj] : k \in {"blank", "badjson", "nonobject"}}
    \cup {[kind |-> "object", req |-> r] : r \in Requests}

NoLine == [kind |-> "none", req |-> EmptyObj]

(***************************************************************************)
(* Daemon state: module globals and the adapter objects behind them        *)
(***************************************************************************)
None == 0
NoModel == <<>>

\* MLXImageGenerator.__init__, MLXWhisperSTT.__init__, MLXMusicGen.__init__
NewImage == [pipeline |-> NoModel, model_name |-> "None"]
NewWhisper == [model |-> NoModel, model_name |-> "None"]
NewMusic == [model |-> NoModel, model_size |-> "None", processor |-> "unset"]

\* the five module globals, all None, and no object constructed yet
InitDaemon ==
    [handles |-> [b \in Backends |-> None], nobj |-> 0,
     image |-> NewImage, whisper |-> NewWhisper, music |-> NewMusic]

\* an outcome of running code: either it raised msg, or it returned val;
\* S is the state it left behind either way
Raise(msg, S) == [raised |-> TRUE, msg |-> msg, val |-> EmptyObj, S |-> S, tried |-> {}]
Return(val, S) == [raised |-> FALSE, msg |-> "", val |-> val, S |-> S, tried |-> {}]

\* the body of a get_x() whose global is None: import, construct, assign
Construct(S, b) ==
    IF env[b] = "import"
    THEN [Raise("No module named mlx_" \o b, S) EXCEPT !.tried = {b}]
    ELSE IF env[b] = "ctor"
    THEN [Raise("cannot construct " \o b, S) EXCEPT !.tried = {b}]
    ELSE [Return(EmptyObj,
            [S EXCEPT !.handles[b] = S.nobj + 1, !.nobj = S.nobj + 1,
                      !.image = IF b = "image" THEN NewImage ELSE @,
                      !.whisper = IF b = "whisper" THEN NewWhisper ELSE @,
                      !.music = IF b = "music" THEN NewMusic ELSE @])
          EXCEPT !.tried = {b}]

\* a getter without its `is None` test
GetBackendAlways(S, b) == Construct(S, b)

\* get_image_gen, get_tts, get_voice_clone, get_whisper, get_music_gen
GetBackend(S, b) ==
    IF S.handles[b] # None
    THEN Return(EmptyObj, S)
    ELSE Construct(S, b)

\* gen = get_x(); result = gen.method(...): when get_x() raised, the call
\* is never made; otherwise the call's outcome is the branch's outcome
Then(g, out) == IF g.raised THEN g ELSE [out EXCEPT !.tried = g.tried]

(***************************************************************************)
(* mlx_image_gen.py                                                        *)
(***************************************************************************)
DefaultImageModel == "stable-diffusion"

\* MLXImageGenerator._load_pipeline(model_name)
ImageLoad(S, model_name) ==
    IF S.image.pipeline # NoModel /\ S.image.model_name = model_name
    THEN Return(EmptyObj, S)
    ELSE CASE env.image = "diffusionkit" ->
                Return(EmptyObj, [S EXCEPT !.image =
                    [pipeline |-> <<"diffusionkit", model_name>>, model_name |-> model_name]])
           [] env.image = "loaderr" ->
                Raise("cannot load " \o model_name, S)
           [] env.image = "mflux" ->
                Return(EmptyObj, [S EXCEPT !.image =
                    [pipeline |-> <<"mflux", model_name>>, model_name |-> model_name]])
           [] OTHER ->
                Raise("No MLX diffusion library found. Install diffusionkit or mflux", S)

\* MLXImageGenerator.generate and MLXImageGenerator.img2img: load, run the
\* pipeline, encode; the seed stands for the given or the drawn one
ImageGenerate(S, prompt) ==
    LET l == ImageLoad(S, DefaultImageModel)
    IN  IF l.raised THEN l
        ELSE IF prompt = "bad" THEN Raise("pipeline failed", l.S)
        ELSE Return([images |-> <<l.S.image.pipeline, prompt>>, seed |-> "seed"], l.S)

\* MLXImageGenerator.list_models: reads directories, loads nothing
ImageListModels(S) == Return(<<"models">>, S)

(***************************************************************************)
(* mlx_whisper_stt.py                                                      *)
(***************************************************************************)
\* MLXWhisperSTT._load_model(model_name)
WhisperLoad(S, model_name) ==
    IF S.whisper.model # NoModel /\ S.whisper.model_name = model_name
    THEN Return(EmptyObj, S)
    ELSE IF env.whisper = "nolib"
    THEN Raise("mlx-whisper not available. Install it", S)
    ELSE Return(EmptyObj, [S EXCEPT !.whisper =
            [model |-> <<"mlx_whisper">>, model_name |-> model_name]])

\* MLXWhisperSTT.transcribe
WhisperTranscribe(S, audio_file, model) ==
    LET l == WhisperLoad(S, model)
    IN  IF l.raised THEN l
        ELSE IF audio_file = "bad" THEN Raise("transcription failed", l.S)
        ELSE Return([text |-> <<l.S.whisper.model, model, audio_file>>,
                     language |-> "en", segments |-> <<>>], l.S)

(***************************************************************************)
(* mlx_voice_clone.py                                                      *)
(***************************************************************************)
\* MLXVoiceClone.clone
VoiceClone(S, text) ==
    IF env.voice_clone = "nolib"
    THEN Raise("f5-tts-mlx not available. Install it", S)
    ELSE IF text = "bad" THEN Raise("generation failed", S)
    ELSE Return([audio |-> <<"f5", text>>, sample_rate |-> "24000",
                 duration |-> "duration", generation_time |-> "elapsed"], S)

(***************************************************************************)
(* mlx_tts (imported by the daemon)                                        *)
(***************************************************************************)
\* MLXTTS.generate: a result payload
TTSGenerate(S, text) ==
    IF text = "bad" THEN Raise("synthesis failed", S)
    ELSE Return([audio |-> <<"tts", text>>, sample_rate |-> "24000",
                 duration |-> "duration"], S)

\* MLXTTS.list_engines, MLXTTS.list_voices
TTSList(S, what) == Return(<<what>>, S)

(***************************************************************************)
(* mlx_music_gen.py                                                        *)
(***************************************************************************)
\* MLXMusicGen._load_model(model_size)
MusicLoad(S, model_size) ==
    IF S.music.model # NoModel /\ S.music.model_size = model_size
    THEN Return(EmptyObj, S)
    ELSE CASE env.music = "native" ->
                IF model_size \in env.musicBad
                THEN Raise("cannot load musicgen-" \o model_size, S)
                ELSE Return(EmptyObj, [S EXCEPT
                        !.music.model = <<"native", model_size>>,
                        !.music.model_size = model_size])
           [] env.music = "transformers" ->
                \* self._processor is assigned before the model is loaded
                LET S1 == [S EXCEPT !.music.processor = model_size]
                IN  IF model_size \in env.musicBad
                    THEN Raise("cannot load musicgen-" \o model_size, S1)
                    ELSE Return(EmptyObj, [S1 EXCEPT
                            !.music.model = <<"transformers", model_size>>,
                            !.music.model_size = model_size])
           [] OTHER ->
                Raise("MusicGen not available. Install", S)

\* MLXMusicGen.generate: the audio is what the model, and on the transformers
\* path the processor, make of the prompt
MusicGenerate(S, prompt, model_size) ==
    LET l == MusicLoad(S, model_size)
        m == l.S.music
    IN  IF l.raised THEN l
        ELSE IF prompt = "bad" THEN Raise("generation failed", l.S)
        ELSE IF m.model[1] = "native"
        THEN Return([audio |-> <<m.model, "no processor", prompt>>,
                     sample_rate |-> "32000", duration |-> "duration"], l.S)
        ELSE Return([audio |-> <<m.model, m.processor, prompt>>,
                     sample_rate |-> "32000", duration |-> "duration"], l.S)

(***************************************************************************)
(* aistudio_daemon.py: handle_request                                      *)
(***************************************************************************)
\* the except branch: {"request_id": request_id, "error": str(e)}
ErrorResponseNoId(request_id, msg) == [error |-> msg]

ErrorResponse(request_id, msg) == [request_id |-> request_id, error |-> msg]

\* the else branch: {"request_id": request_id, "error": f"Unknown command: {command}"}
UnknownResponseNoName(request_id, command) ==
    [request_id |-> request_id, error |-> "Unknown command"]

UnknownResponse(request_id, command) ==
    [request_id |-> request_id, error |-> "Unknown command: " \o command]

\* {"request_id": request_id, **result}
SuccessResponseWithError(request_id, result) ==
    Merge([request_id |-> request_id, error |-> ""], result)

SuccessResponse(request_id, result) == Merge([request_id |-> request_id], result)

\* return {"request_id": request_id, **result} once the call has returned
Spread(request_id, out) ==
    IF out.raised THEN out
    ELSE [out EXCEPT !.val = SuccessResponse(request_id, out.val)]

\* return {"request_id": request_id, key: value} once the call has returned
Keyed(request_id, key, out) ==
    IF out.raised THEN out
    ELSE [out EXCEPT !.val = [request_id |-> request_id] @@ (key :> out.val)]

\* the body of the try block: the if/elif chain over command
Branch(request, S) ==
    LET command == Get(request, "command", "")
        request_id == Get(request, "request_id", "")
        gen == GetBackend(S, "image")
        tts == GetBackend(S, "tts")
        vc == GetBackend(S, "voice_clone")
        whisper == GetBackend(S, "whisper")
        music == GetBackend(S, "music")
    IN  CASE command = "health" ->
                Return([request_id |-> request_id, status |-> "ok"], S)
          [] command = "generate_image" ->
                Spread(request_id,
                    Then(gen, ImageGenerate(gen.S, Get(request, "prompt", ""))))
          [] command = "img2img" ->
                Spread(request_id,
                    Then(gen, ImageGenerate(gen.S, Get(request, "prompt", ""))))
          [] command = "list_image_models" ->
                Keyed(request_id, "models", Then(gen, ImageListModels(gen.S)))
          [] command = "tts" ->
                Spread(request_id,
                    Then(tts, TTSGenerate(tts.S, Get(request, "text", ""))))
          [] command = "list_tts_engines" ->
                Keyed(request_id, "engines", Then(tts, TTSList(tts.S, "engines")))
          [] command = "list_voices" ->
                Keyed(request_id, "voices", Then(tts, TTSList(tts.S, "voices")))
          [] command = "voice_clone" ->
                Spread(request_id,
                    Then(vc, VoiceClone(vc.S, Get(request, "text", ""))))
          [] command = "transcribe" ->
                Spread(request_id,
                    Then(whisper, WhisperTranscribe(whisper.S,
                                      Get(request, "audio_file", ""),
                                      Get(request, "model", "base"))))
          [] command = "generate_music" ->
                Spread(request_id,
                    Then(music, MusicGenerate(music.S,
                                    Get(request, "prompt", ""),
                                    Get(request, "model_size", "small"))))
          [] command = "cancel" ->
                Return([request_id |-> request_id, status |-> "cancelled"], S)
          [] OTHER ->
                Return(UnknownResponse(request_id, command), S)

\* handle_request(request) on a JSON object: the response, the state it
\* leaves, and what the except clause caught (<<>> when nothing was raised)
handle_request(request, S) ==
    LET out == Branch(request, S)
    IN  [response |-> IF out.raised
                      THEN ErrorResponse(Get(request, "request_id", ""), out.msg)
                      ELSE out.val,
         S |-> out.S,
         exc |-> IF out.raised THEN <<out.msg>> ELSE <<>>,
         tried |-> out.tried]

(***************************************************************************)
(* aistudio_daemon.py: main                                                *)
(***************************************************************************)
NoResponse == EmptyObj

\* for line in sys.stdin: strip, skip a blank line, json.loads; a line that
\* does not parse gets {"error": "Invalid JSON: ..."} without reaching
\* handle_request
ReadLine ==
    /\ pc = "read"
    /\ nread < MaxLines
    /\ \E l \in Lines :
        /\ nread' = nread + 1
        /\ IF l.kind = "blank"
           THEN UNCHANGED <<pc, nonblank, line, response>>
           ELSE /\ nonblank' = nonblank + 1
                /\ line' = l
                /\ IF l.kind = "badjson"
                   THEN pc' = "write" /\ response' = [error |-> "Invalid JSON"]
                   ELSE pc' = "handle" /\ response' = NoResponse
    /\ UNCHANGED <<env, exc, tried, stdout, daemon, ref, skipped, refResp>>
    /\ UNCHANGED wavVars
    /\ UNCHANGED cloneVars

\* sys.stdin is exhausted: the for loop and main() end
EndOfInput ==
    /\ pc = "read"
    /\ pc' = "done"
    /\ UNCHANGED <<env, nread, nonblank, line, response, exc, tried, stdout,
                   daemon, ref, skipped, refResp>>
    /\ UNCHANGED wavVars
    /\ UNCHANGED cloneVars

\* response = handle_request(request). request.get(...) precedes the try
\* block: a JSON value that is no object raises AttributeError there, main()
\* does not catch it and the process ends
Handle ==
    /\ pc = "handle"
    /\ IF line.kind = "nonobject"
       THEN /\ pc' = "crashed"
            /\ UNCHANGED <<response, exc, tried, daemon>>
       ELSE LET h == handle_request(line.req, daemon)
            IN  /\ pc' = "write"
                /\ response' = h.response
                /\ exc' = h.exc
                /\ tried' = h.tried
                /\ daemon' = h.S
    /\ UNCHANGED <<env, nread, nonblank, line, stdout>>
    /\ UNCHANGED wavVars
    /\ UNCHANGED cloneVars

\* sys.stdout.write(json.dumps(response) + "\n"); sys.stdout.flush()
Write ==
    /\ pc = "write"
    /\ stdout' = Append(stdout, nonblank)
    /\ pc' = "read"
    /\ line' = NoLine
    /\ response' = NoResponse
    /\ exc' = <<>>
    /\ tried' = {}
    /\ refResp' = NoResponse
    /\ UNCHANGED <<env, nread, nonblank, daemon, ref, skipped>>
    /\ UNCHANGED wavVars
    /\ UNCHANGED cloneVars

HandleRequest == Handle /\ UNCHANGED <<ref, skipped, refResp>>

InitDaemonVars ==
    /\ env \in Envs
    /\ pc = "read"
    /\ nread = 0
    /\ nonblank = 0
    /\ line = NoLine
    /\ response = NoResponse
    /\ exc = <<>>
    /\ tried = {}
    /\ stdout = <<>>
    /\ daemon = InitDaemon
    /\ ref = InitDaemon
    /\ skipped = FALSE
    /\ refResp = NoResponse

\* what the two resamplers and the generator do when run
NoTools == [ffmpeg |-> "ok", afconvert |-> "ok", generate |-> "ok"]

\* clone is not being called and no temporary file exists
IdleClone ==
    /\ cpc = "idle"
    /\ ncalls = 0
    /\ tools = NoTools
    /\ files = {}
    /\ created = {}
    /\ nfiles = 0
    /\ rtmp = None
    /\ resampled_ref = None
    /\ tmp_path = None
    /\ pending = FALSE

IdleWav ==
    /\ wavIn = <<>>
    /\ wavRate = 0
    /\ wavMusic = <<"none">>
    /\ wavClone = <<"none">>

Init == InitDaemonVars /\ IdleWav /\ IdleClone

Next == ReadLine \/ EndOfInput \/ HandleRequest \/ Write

Spec == Init /\ [][Next]_vars

(***************************************************************************)
(* The same daemon beside a reference run that is never sent one of the    *)
(* requests that ended in an error response                                *)
(***************************************************************************)
\* up to the left-out request both runs are the same run
HandleMirror ==
    /\ ~skipped
    /\ Handle
    /\ ref' = daemon'
    /\ refResp' = response'
    /\ UNCHANGED skipped

\* the request ends in an error response, and the reference run never sees it
HandleSkip ==
    /\ ~skipped
    /\ line.kind = "object"
    /\ Handle
    /\ "error" \in DOMAIN response'
    /\ skipped' = TRUE
    /\ refResp' = response'
    /\ UNCHANGED ref

\* a later request: the reference run answers it from its own state
HandleAfter ==
    /\ skipped
    /\ Handle
    /\ IF line.kind = "nonobject"
       THEN UNCHANGED <<ref, refResp>>
       ELSE LET h == handle_request(line.req, ref)
            IN  ref' = h.S /\ refResp' = h.response
    /\ UNCHANGED skipped

NextIso == ReadLine \/ EndOfInput \/ HandleMirror \/ HandleSkip \/ HandleAfter \/ Write

SpecIso == Init /\ [][NextIso]_vars

(***************************************************************************)
(* Properties of the daemon                                                *)
(***************************************************************************)
Command == Get(line.req, "command", "")
RequestId == Get(line.req, "request_id", "")
Answered == pc = "write" /\ line.kind = "object"

\* C1: the response handle_request returns for a JSON object carries
\* request_id equal to the request's request_id ("" when it has none),
\* whatever the command and whether the handler returned or raised.
C1_RequestIdEchoed ==
    Answered => /\ "request_id" \in DOMAIN response
                /\ response["request_id"] = RequestId

C1_Witness ==
    /\ Answered
    /\ RequestId = "r2"
    /\ exc # <<>>
    /\ response["request_id"] = "r2"

\* C2: exactly one response is written per non-blank line read and none for
\* a blank line, the i-th response answers the i-th non-blank line, and a
\* line's response is written before the next line is read.
C2_OneResponsePerLineInOrder ==
    /\ \A i \in 1..Len(stdout) : stdout[i] = i
    /\ pc \in {"handle", "write"} => Len(stdout) = nonblank - 1
    /\ pc \in {"read", "done", "crashed"} => Len(stdout) = nonblank

\* C3: a non-blank line that is no usable request (not JSON, or JSON that is
\* no object) gets one response with an error field and the loop goes on.
C3_MalformedInputSurvived ==
    /\ pc # "crashed"
    /\ (pc = "write" /\ line.kind \in {"badjson", "nonobject"})
            => "error" \in DOMAIN response

\* C4: an exception raised while a command is handled becomes the response
\* {request_id, error: str(e)} and nothing else; a response to a listed
\* command that did not raise carries no error field.
C4_ExceptionsBecomeErrors ==
    Answered =>
        /\ exc # <<>> => response = [request_id |-> RequestId, error |-> exc[1]]
        /\ (exc = <<>> /\ Command \in Commands) => "error" \notin DOMAIN response

C4_Witness ==
    /\ Answered
    /\ exc # <<>>
    /\ tried # {}
    /\ DOMAIN response = {"request_id", "error"}

\* C5: a request whose command is none of the eleven (or is missing) gets
\* {request_id, error: "Unknown command: <command>"}; no backend is
\* imported or constructed and the daemon state is unchanged.
C5_UnknownCommand ==
    [][(pc = "handle" /\ line.kind = "object" /\ Command \notin Commands)
        => /\ pc' = "write"
           /\ response' = [request_id |-> RequestId,
                           error |-> "Unknown command: " \o Command]
           /\ exc' = <<>>
           /\ tried' = {}
           /\ daemon' = daemon]_vars

C5_Witness ==
    /\ Answered
    /\ "command" \notin DOMAIN line.req
    /\ response = [request_id |-> RequestId, error |-> "Unknown command: "]
    /\ daemon.nobj > 0

\* C6: after a request that ended in an error response the daemon keeps
\* running, and every later request gets the response it would have got had
\* the failed request never been sent.
C6_FailureLeavesNoTrace ==
    (skipped /\ Answered) => response = refResp

\* C9: the five handles start unset; a handle is set only while handling a
\* command of its own backend; a set handle is never replaced; a handle
\* whose import or construction failed stays unset, and the next request
\* for that backend tries again.
C9_LazySingletons ==
    /\ \A b \in Backends : daemon.handles[b] = None
    /\ [][\A b \in Backends :
            /\ daemon.handles[b] # None => daemon'.handles[b] = daemon.handles[b]
            /\ daemon'.handles[b] # daemon.handles[b]
                  => pc = "handle" /\ line.kind = "object" /\ BackendOf(Command) = b
            /\ (pc = "handle" /\ line.kind = "object" /\ BackendOf(Command) = b
                    /\ daemon.handles[b] = None)
                  => /\ b \in tried'
                     /\ env[b] \in {"import", "ctor"} => daemon'.handles[b] = None
                     /\ env[b] \notin {"import", "ctor"} => daemon'.handles[b] # None
         ]_vars

C9_Witness ==
    /\ Answered
    /\ BackendOf(Command) = "music"
    /\ daemon.handles["music"] # None
    /\ tried = {}
    /\ daemon.nobj >= 2

\* C10: in each adapter the cached model and its recorded name are unset
\* together, the cached model (and the music processor) is the one loaded
\* for the recorded name, so a cache hit never hands out a model or
\* processor loaded for another name.
C10_CacheConsistent ==
    /\ daemon.image.pipeline = NoModel <=> daemon.image.model_name = "None"
    /\ daemon.image.pipeline # NoModel
            => daemon.image.pipeline[2] = daemon.image.model_name
    /\ daemon.whisper.model = NoModel <=> daemon.whisper.model_name = "None"
    /\ daemon.music.model = NoModel <=> daemon.music.model_size = "None"
    /\ daemon.music.model # NoModel
            => /\ daemon.music.model[2] = daemon.music.model_size
               /\ daemon.music.model[1] = "transformers"
                    => daemon.music.processor = daemon.music.model_size

(***************************************************************************)
(* _array_to_wav (mlx_music_gen.py, mlx_voice_clone.py)                    *)
(* A sample is an integer s standing for the real number s/Q; arithmetic   *)
(* is exact where the code computes in float32.                            *)
(***************************************************************************)
I16Scale == 32767

SampleValues == (-2 * Q) .. (2 * Q)
Arrays == UNION {[1..n -> SampleValues] : n \in 0..MaxSamples}
Rates == {24000, 32000, 44100}

Abs(x) == IF x < 0 THEN -x ELSE x
Larger(x, y) == IF x >= y THEN x ELSE y

\* ndarray.max(), ndarray.min() of a non-empty array
ArrayMax(a) == CHOOSE x \in {a[i] : i \in 1..Len(a)} : \A j \in 1..Len(a) : a[j] <= x
ArrayMin(a) == CHOOSE x \in {a[i] : i \in 1..Len(a)} : \A j \in 1..Len(a) : a[j] >= x

\* max(abs(audio_array.max()), abs(audio_array.min()))
Peak(a) == Larger(Abs(ArrayMax(a)), Abs(ArrayMin(a)))

\* the array as fractions <<numerator, denominator>>
AsGiven(a) == [i \in 1..Len(a) |-> <<a[i], Q>>]
DividedByPeak(a) == [i \in 1..Len(a) |-> <<a[i], Peak(a)>>]

\* a normalisation that never rescales
MusicNeverNormalize(a) == AsGiven(a)

\* MLXMusicGen._array_to_wav: if len > 0, peak = ..., if peak > 1.0: divide
MusicNormalize(a) ==
    IF Len(a) > 0 /\ Peak(a) > Q THEN DividedByPeak(a) ELSE AsGiven(a)

\* MLXVoiceClone._array_to_wav: if max() > 1.0 or min() < -1.0: divide
\* (called on a non-empty array only: max() of an empty array raises)
CloneNormalize(a) ==
    IF ArrayMax(a) > Q \/ ArrayMin(a) < -Q THEN DividedByPeak(a) ELSE AsGiven(a)

\* float -> integer conversion truncates toward zero
TruncDiv(n, d) == IF n >= 0 THEN n \div d ELSE -((-n) \div d)

\* (audio_array * 32767).astype(np.int16): truncate, keep the low 16 bits
ToInt16(f) ==
    LET v == TruncDiv(f[1] * I16Scale, f[2])
    IN  ((v + 32768) % 65536) - 32768

\* struct.pack("<I", v), struct.pack("<H", v)
PackU32(v) == <<v % 256, (v \div 256) % 256, (v \div 65536) % 256, (v \div 16777216) % 256>>
PackU16(v) == <<v % 256, (v \div 256) % 256>>
\* struct.error unless 0 <= v < 2^32
CanPackU32(v) == v >= 0 /\ (v \div 65536) <= 65535

\* ndarray.tobytes() of int16 data: two's complement, little-endian
Int16Bytes(v) == PackU16((v + 65536) % 65536)

RECURSIVE ToBytes(_)
ToBytes(ints) ==
    IF Len(ints) = 0 THEN <<>>
    ELSE Int16Bytes(Head(ints)) \o ToBytes(Tail(ints))

\* the buf.write(...) calls from b"RIFF" to int_data.tobytes()
WriteWav(fracs, sample_rate) ==
    LET int_data == [i \in 1..Len(fracs) |-> ToInt16(fracs[i])]
        num_samples == Len(int_data)
        data_size == num_samples * 2
    IN  IF ~(CanPackU32(36 + data_size) /\ CanPackU32(sample_rate * 2))
        THEN <<"raised", "struct.error">>
        ELSE <<"bytes",
               <<82, 73, 70, 70>> \o PackU32(36 + data_size)
               \o <<87, 65, 86, 69>> \o <<102, 109, 116, 32>>
               \o PackU32(16) \o PackU16(1) \o PackU16(1)
               \o PackU32(sample_rate) \o PackU32(sample_rate * 2)
               \o PackU16(2) \o PackU16(16)
               \o <<100, 97, 116, 97>> \o PackU32(data_size)
               \o ToBytes(int_data)>>

\* MLXMusicGen._array_to_wav(audio_array, sample_rate)
MusicArrayToWav(a, sample_rate) == WriteWav(MusicNormalize(a), sample_rate)

\* MLXVoiceClone._array_to_wav(audio_array, sample_rate)
CloneArrayToWav(a, sample_rate) ==
    IF Len(a) = 0
    THEN <<"raised", "ValueError: zero-size array to reduction operation maximum">>
    ELSE WriteWav(CloneNormalize(a), sample_rate)

RunMusicWav ==
    /\ wavMusic = <<"none">>
    /\ wavMusic' = MusicArrayToWav(wavIn, wavRate)
    /\ UNCHANGED <<wavIn, wavRate, wavClone>>
    /\ UNCHANGED daemonVars
    /\ UNCHANGED cloneVars

RunCloneWav ==
    /\ wavClone = <<"none">>
    /\ wavClone' = CloneArrayToWav(wavIn, wavRate)
    /\ UNCHANGED <<wavIn, wavRate, wavMusic>>
    /\ UNCHANGED daemonVars
    /\ UNCHANGED cloneVars

InitWav ==
    /\ env = BaseEnv
    /\ pc = "done"
    /\ nread = 0
    /\ nonblank = 0
    /\ line = NoLine
    /\ response = NoResponse
    /\ exc = <<>>
    /\ tried = {}
    /\ stdout = <<>>
    /\ daemon = InitDaemon
    /\ ref = InitDaemon
    /\ skipped = FALSE
    /\ refResp = NoResponse
    /\ wavIn \in Arrays
    /\ wavRate \in Rates
    /\ wavMusic = <<"none">>
    /\ wavClone = <<"none">>
    /\ IdleClone

NextWav == RunMusicWav \/ RunCloneWav

SpecWav == InitWav /\ [][NextWav]_vars

(***************************************************************************)
(* Properties of _array_to_wav                                             *)
(***************************************************************************)
\* reading a WAV file back: unsigned little-endian fields, signed samples
U16At(bytes, off) == bytes[off + 1] + 256 * bytes[off + 2]
U32At(bytes, off) == U16At(bytes, off) + 65536 * U16At(bytes, off + 2)
S16At(bytes, off) ==
    IF U16At(bytes, off) >= 32768 THEN U16At(bytes, off) - 65536 ELSE U16At(bytes, off)

\* the PCM value the i-th sample is to become: rescaled by the peak exactly
\* when some sample lies outside [-1, 1]
ExpectedPcm(a, i) ==
    IF \E j \in 1..Len(a) : a[j] > Q \/ a[j] < -Q
    THEN TruncDiv(a[i] * 32767, Peak(a))
    ELSE TruncDiv(a[i] * 32767, Q)

IsWavOf(out, a, rate) ==
    /\ out[1] = "bytes"
    /\ LET b == out[2]
           n == Len(a)
       IN  /\ Len(b) = 44 + 2 * n
           /\ SubSeq(b, 1, 4) = <<82, 73, 70, 70>>
           /\ U32At(b, 4) = 36 + 2 * n
           /\ SubSeq(b, 9, 12) = <<87, 65, 86, 69>>
           /\ SubSeq(b, 13, 16) = <<102, 109, 116, 32>>
           /\ U32At(b, 16) = 16
           /\ U16At(b, 20) = 1
           /\ U16At(b, 22) = 1
           /\ U32At(b, 24) = rate
           /\ U32At(b, 28) = 2 * rate
           /\ U16At(b, 32) = 2
           /\ U16At(b, 34) = 16
           /\ SubSeq(b, 37, 40) = <<100, 97, 116, 97>>
           /\ U32At(b, 40) = 2 * n
           /\ \A i \in 1..n : S16At(b, 42 + 2 * i) = ExpectedPcm(a, i)

\* C7: for every sample count N >= 0 and rate R both _array_to_wav return
\* 44 + 2N bytes: the RIFF/WAVE header for N and R, then the 2N bytes of
\* little-endian 16-bit samples; the two implementations agree.
C7_WavLayout ==
    /\ wavMusic # <<"none">> => IsWavOf(wavMusic, wavIn, wavRate)
    /\ wavClone # <<"none">> => IsWavOf(wavClone, wavIn, wavRate)
    /\ (wavMusic # <<"none">> /\ wavClone # <<"none">>) => wavMusic = wavClone

\* C8: samples are rescaled (divided by the peak) exactly when some sample
\* lies outside [-1, 1]; every emitted PCM value is the (rescaled) sample
\* times 32767 truncated, and lies in [-32767, 32767].
C8_PcmInRange ==
    \A out \in {wavMusic, wavClone} :
        out[1] = "bytes" =>
            /\ Len(out[2]) = 44 + 2 * Len(wavIn)
            /\ \A i \in 1..Len(wavIn) :
                LET v == S16At(out[2], 42 + 2 * i)
                IN  /\ v = ExpectedPcm(wavIn, i)
                    /\ v >= -32767
                    /\ v <= 32767

C8_Witness ==
    /\ wavMusic[1] = "bytes"
    /\ wavClone[1] = "bytes"
    /\ Len(wavIn) = 2
    /\ wavIn[1] = 2 * Q
    /\ wavIn[2] = -Q
    /\ S16At(wavMusic[2], 44) = 32767
    /\ S16At(wavClone[2], 46) = -16383

(***************************************************************************)
(* mlx_voice_clone.py: the temporary files of clone and _resample_to_24k   *)
(***************************************************************************)
\* subprocess.run(..., check=True, timeout=30): the tool runs ("ok"), is not
\* installed (FileNotFoundError), exits non-zero (CalledProcessError) or
\* runs past the timeout (TimeoutExpired)
RunOutcomes == {"ok", "missing", "failed", "timeout"}

\* the outcomes _resample_to_24k handles with `except (FileNotFoundError,
\* subprocess.CalledProcessError)`
Handled(outcome) == outcome \in {"missing", "failed"}

\* os.unlink(path) under `if os.path.exists(path)`
Unlink(fs, path) == fs \ {path}

\* clone(text, reference_audio, speed): the f5_tts_mlx import, which raises
\* RuntimeError before any file is created when the library is missing
CloneCall ==
    /\ cpc = "idle"
    /\ ncalls < MaxCalls
    /\ ncalls' = ncalls + 1
    /\ created' = {}
    /\ rtmp' = None
    /\ resampled_ref' = None
    /\ tmp_path' = None
    /\ pending' = FALSE
    /\ \E f5 \in BOOLEAN :
        IF f5
        THEN /\ cpc' = "resample"
             /\ tools' \in [ffmpeg : RunOutcomes, afconvert : RunOutcomes,
                            generate : {"ok", "raises"}]
        ELSE /\ cpc' = "raised"
             /\ tools' = NoTools
    /\ UNCHANGED <<files, nfiles>>
    /\ UNCHANGED daemonVars
    /\ UNCHANGED wavVars

\* _resample_to_24k: tmp = NamedTemporaryFile(suffix=".wav", delete=False)
ResampleCreate ==
    /\ cpc = "resample"
    /\ nfiles' = nfiles + 1
    /\ rtmp' = nfiles + 1
    /\ files' = files \cup {nfiles + 1}
    /\ created' = created \cup {nfiles + 1}
    /\ cpc' = "ffmpeg"
    /\ UNCHANGED <<ncalls, tools, resampled_ref, tmp_path, pending>>
    /\ UNCHANGED daemonVars
    /\ UNCHANGED wavVars

\* _resample_to_24k: the ffmpeg attempt. Success returns tmp_path; a handled
\* failure falls through to afconvert; TimeoutExpired leaves the function,
\* and clone's `except Exception: pass` goes on with resampled_ref = None
RunFfmpeg ==
    /\ cpc = "ffmpeg"
    /\ IF tools.ffmpeg = "ok"
       THEN cpc' = "mktemp" /\ resampled_ref' = rtmp
       ELSE IF Handled(tools.ffmpeg)
       THEN cpc' = "afconvert" /\ UNCHANGED resampled_ref
       ELSE cpc' = "mktemp" /\ UNCHANGED resampled_ref
    /\ UNCHANGED <<ncalls, tools, files, created, nfiles, rtmp, tmp_path, pending>>
    /\ UNCHANGED daemonVars
    /\ UNCHANGED wavVars

\* _resample_to_24k: the afconvert attempt. A handled failure unlinks
\* tmp_path and raises RuntimeError; TimeoutExpired leaves the function at
\* once; clone passes over either with resampled_ref = None
RunAfconvert ==
    /\ cpc = "afconvert"
    /\ cpc' = "mktemp"
    /\ IF tools.afconvert = "ok"
       THEN resampled_ref' = rtmp /\ UNCHANGED files
       ELSE IF Handled(tools.afconvert)
       THEN files' = Unlink(files, rtmp) /\ UNCHANGED resampled_ref
       ELSE UNCHANGED <<files, resampled_ref>>
    /\ UNCHANGED <<ncalls, tools, created, nfiles, rtmp, tmp_path, pending>>
    /\ UNCHANGED daemonVars
    /\ UNCHANGED wavVars

\* clone: with NamedTemporaryFile(suffix=".wav", delete=False) as tmp
MakeOutput ==
    /\ cpc = "mktemp"
    /\ nfiles' = nfiles + 1
    /\ tmp_path' = nfiles + 1
    /\ files' = files \cup {nfiles + 1}
    /\ created' = created \cup {nfiles + 1}
    /\ cpc' = "generate"
    /\ UNCHANGED <<ncalls, tools, rtmp, resampled_ref, pending>>
    /\ UNCHANGED daemonVars
    /\ UNCHANGED wavVars

\* clone: f5_generate(...) and the read of its output, inside try
Generate ==
    /\ cpc = "generate"
    /\ pending' = (tools.generate = "raises")
    /\ cpc' = "finally"
    /\ UNCHANGED <<ncalls, tools, files, created, nfiles, rtmp, resampled_ref, tmp_path>>
    /\ UNCHANGED daemonVars
    /\ UNCHANGED wavVars

\* clone: the finally block, then the return or the raise
Finally ==
    /\ cpc = "finally"
    /\ files' = IF resampled_ref # None
                THEN Unlink(Unlink(files, tmp_path), resampled_ref)
                ELSE Unlink(files, tmp_path)
    /\ cpc' = IF pending THEN "raised" ELSE "returned"
    /\ UNCHANGED <<ncalls, tools, created, nfiles, rtmp, resampled_ref, tmp_path, pending>>
    /\ UNCHANGED daemonVars
    /\ UNCHANGED wavVars

\* the caller has the result or the exception; the adapter is called again
CloneDone ==
    /\ cpc \in {"returned", "raised"}
    /\ cpc' = "idle"
    /\ UNCHANGED <<ncalls, tools, files, created, nfiles, rtmp, resampled_ref,
                   tmp_path, pending>>
    /\ UNCHANGED daemonVars
    /\ UNCHANGED wavVars

InitClone ==
    /\ env = BaseEnv
    /\ pc = "done"
    /\ nread = 0
    /\ nonblank = 0
    /\ line = NoLine
    /\ response = NoResponse
    /\ exc = <<>>
    /\ tried = {}
    /\ stdout = <<>>
    /\ daemon = InitDaemon
    /\ ref = InitDaemon
    /\ skipped = FALSE
    /\ refResp = NoResponse
    /\ IdleWav
    /\ IdleClone

NextClone ==
    \/ CloneCall \/ ResampleCreate \/ RunFfmpeg \/ RunAfconvert
    \/ MakeOutput \/ Generate \/ Finally \/ CloneDone

SpecClone == InitClone /\ [][NextClone]_vars

\* C11: when clone returns or raises, every temporary file created during
\* the call has been deleted, whatever ffmpeg, afconvert and the generator
\* did (succeeded, were missing, failed or timed out).
C11_NoTempFileLeft ==
    cpc \in {"returned", "raised"} => created \cap files = {}

====
